---- MODULE Spec2Model ----
(***************************************************************************)
(* nanobot-worker (src/main.py): a FastAPI relay with four endpoints that  *)
(* forward a request to one external provider each.                        *)
(*                                                                         *)
(* The model follows one request at a time through its handler.  A handler *)
(* is split at its single await of the outbound HTTP call: the first       *)
(* action runs the handler from its entry to that await (or to an early    *)
(* raise), the second one runs it from the provider's outcome to the       *)
(* response.  Handlers share no mutable state (the only module-level data  *)
(* are the credentials read at import), so interleaving two handlers adds  *)
(* no behaviour the sequential model lacks.                                *)
(*                                                                         *)
(* Modelling conventions                                                   *)
(*   Optional[T]   a sequence of length 0 (None) or 1 (the value)          *)
(*   str           a sequence of tokens where the code inspects the text   *)
(*                 (content type, prompt, URL), its length where the code  *)
(*                 only measures it (voiceover text), a TLA+ string else   *)
(*   bytes         their length                                            *)
(*   JSON value    a record tagged by "t": null, num, str, list, obj       *)
(***************************************************************************)
EXTENDS Integers, Sequences, FiniteSets, TLC

VARIABLES
    GEMINI_API_KEY,        \* main.py:24, read once at import
    ELEVENLABS_API_KEY,    \* main.py:25, read once at import
    POLLINATIONS_API_KEY,  \* main.py:26, read once at import, never used
    SCREENSHOTONE_KEY,     \* main.py:192, os.getenv on every request
    pc,                    \* "idle": no handler running; "awaiting": a handler
                           \* is suspended in its outbound call
    request,               \* the request of the running / last handler
    file_read,             \* whether file.read() ran for this request
    outbound,              \* the outbound HTTP calls issued for this request
    upstream,              \* the outcome the provider gave to the last call
    response,              \* what the caller of this request received
    image_log              \* the last MaxLog adapted /generate-image calls

vars == <<GEMINI_API_KEY, ELEVENLABS_API_KEY, POLLINATIONS_API_KEY,
          SCREENSHOTONE_KEY, pc, request, file_read, outbound, upstream,
          response, image_log>>

config == <<GEMINI_API_KEY, ELEVENLABS_API_KEY, POLLINATIONS_API_KEY,
            SCREENSHOTONE_KEY>>

----------------------------------------------------------------------------
(* Bounds of the model *)

\* how far past the limit the voiceover text lengths go
MaxOver == 1
\* largest byte length of a provider's binary body
MaxContent == 1
\* length of the window of remembered /generate-image calls
MaxLog == 2

(* Program constants *)

\* main.py:292  len(request.text) > 5000
MAX_TEXT_CHARS == 5000

----------------------------------------------------------------------------
(* Python values *)

None == <<>>
Some(x) == <<x>>

\* a credential: os.getenv(NAME, "") gives "" when the variable is unset
Credentials == {"", "key"}

\* the credential check left out: every credential counts as configured
not_configured_Skipped(key) == FALSE

\* `not KEY` for a credential string: true of the empty string
not_configured(key) == key = ""

\* str.startswith on token sequences
startswith(s, prefix) ==
    /\ Len(s) >= Len(prefix)
    /\ SubSeq(s, 1, Len(prefix)) = prefix

\* truthiness of Optional[str]: None and "" are falsy
TruthyOptStr(o) == o # None /\ o[1] # <<>>

\* truthiness of Optional[int]: None and 0 are falsy
TruthyOptInt(o) == o # None /\ o[1] # 0

----------------------------------------------------------------------------
(* JSON values, as response.json() returns them *)

Null == [t |-> "null"]
Num(n) == [t |-> "num", n |-> n]
Str(s) == [t |-> "str", s |-> s]
List(xs) == [t |-> "list", xs |-> xs]
Obj(f) == [t |-> "obj", f |-> f]
EmptyObj == Obj(<<>>)
\* a body that is not JSON at all: response.json() raises
NotJson == [t |-> "notjson"]
\* no body was parsed (binary endpoints, failed calls)
NoBody == [t |-> "nobody"]

\* `key in v`: membership of a key in a dict, of an element in a list;
\* TypeError on None and on a number
PyInRaises(v) == v.t \notin {"obj", "list"}
PyIn(key, v) ==
    CASE v.t = "obj" -> key \in DOMAIN v.f
      [] v.t = "list" -> \E i \in 1..Len(v.xs) :
                            v.xs[i].t = "str" /\ v.xs[i].s = key

\* `v[key]` with a string key: the value of a dict; TypeError on a list
PyGetRaises(key, v) == v.t # "obj" \/ key \notin DOMAIN v.f
PyGet(key, v) == v.f[key]

\* `len(v)`: TypeError on None and on a number
PyLenRaises(v) == v.t \notin {"obj", "list"}
PyLen(v) ==
    CASE v.t = "obj" -> Cardinality(DOMAIN v.f)
      [] v.t = "list" -> Len(v.xs)

\* `v[0]`: the first element of a list; KeyError on a dict (JSON keys are
\* strings), TypeError on None and on a number
PyFirstRaises(v) == v.t # "list" \/ Len(v.xs) = 0
PyFirst(v) == v.xs[1]

\* `v.get(key, default)`: AttributeError unless v is a dict
PyDictGetRaises(v) == v.t # "obj"
PyDictGet(v, key, default) == IF key \in DOMAIN v.f THEN v.f[key] ELSE default

\* "\n".join(parts) for a sequence of TLA+ strings
RECURSIVE join(_)
join(parts) ==
    IF Len(parts) = 0 THEN ""
    ELSE IF Len(parts) = 1 THEN parts[1]
    ELSE parts[1] \o "\n" \o join(Tail(parts))

----------------------------------------------------------------------------
(* Responses to the caller *)

\* no response yet
NoResponse ==
    [status_code |-> 0, media_type |-> "", detail |-> "", content_len |-> 0,
     answer |-> "", tokens_used |-> NoBody]

\* raise HTTPException(status_code, detail): FastAPI answers with that
\* status and the JSON body {"detail": detail}
HTTPException(status_code, detail) ==
    [status_code |-> status_code, media_type |-> "application/json",
     detail |-> detail, content_len |-> 0, answer |-> "",
     tokens_used |-> NoBody]

\* StreamingResponse(io.BytesIO(content), media_type=...): status 200
StreamingResponse(content_len, media_type) ==
    [status_code |-> 200, media_type |-> media_type, detail |-> "",
     content_len |-> content_len, answer |-> "", tokens_used |-> NoBody]

\* the dict solve_pdf returns: status 200, JSON
SolveResult(answer, tokens_used) ==
    [status_code |-> 200, media_type |-> "application/json", detail |-> "",
     content_len |-> 0, answer |-> answer, tokens_used |-> tokens_used]

----------------------------------------------------------------------------
(* Outcomes of an outbound call *)

\* httpx raised TimeoutException
Timeout == [kind |-> "timeout", status_code |-> 0, content_len |-> 0,
            body |-> NoBody]
\* httpx raised another error (connection refused, DNS, ...)
NetworkError == [kind |-> "error", status_code |-> 0, content_len |-> 0,
                 body |-> NoBody]
\* the provider answered
Reply(status_code, content_len, body) ==
    [kind |-> "response", status_code |-> status_code,
     content_len |-> content_len, body |-> body]
NoOutcome == [kind |-> "none", status_code |-> 0, content_len |-> 0,
              body |-> NoBody]

\* status codes a provider answers with
UpstreamStatuses == {200, 404, 500}

\* outcomes of a call whose body is binary (image, audio)
BinaryOutcomes ==
    {Timeout, NetworkError}
    \cup {Reply(s, n, NoBody) : s \in UpstreamStatuses, n \in 0..MaxContent}

----------------------------------------------------------------------------
(* POST /solve-pdf *)

\* content types an upload declares (UploadFile.content_type, Optional[str])
ContentTypes ==
    { None,
      Some(<<>>),
      Some(<<"application/pdf">>),
      Some(<<"application/pdf", "; qs=0.9">>),
      Some(<<"x-", "application/pdf">>),
      Some(<<"image/png">>) }

\* the content-type check without its startswith test
NotPdf_AnyType(content_type) == ~TruthyOptStr(content_type)

\* main.py:107  not file.content_type or
\*              not file.content_type.startswith("application/pdf")
NotPdf(content_type) ==
    \/ ~TruthyOptStr(content_type)
    \/ ~startswith(content_type[1], <<"application/pdf">>)

\* bodies the document provider answers with; strings occur in them only
\* as the value of a "text" key
Bodies ==
    << NotJson,
       Null,
       List(<<>>),
       EmptyObj,
       Obj("candidates" :> List(<<>>)),
       Obj("candidates" :> List(<<>>)
           @@ "usageMetadata" :> Obj("totalTokenCount" :> Num(12))),
       Obj("candidates" :> List(<<>>) @@ "usageMetadata" :> Null),
       Obj("usageMetadata" :> EmptyObj),
       Obj("candidates" :> Null),
       Obj("candidates" :> EmptyObj),
       Obj("candidates" :> List(<<Null>>)),
       Obj("candidates" :> List(<<EmptyObj>>)),
       Obj("candidates" :> List(<<Obj("content" :> Null)>>)),
       Obj("candidates" :> List(<<Obj("content" :> EmptyObj)>>)),
       Obj("candidates" :> List(<<Obj("content" :> Obj("parts" :> Null))>>)),
       Obj("candidates" :> List(<<Obj("content" :>
               Obj("parts" :> List(<<Null>>)))>>)),
       Obj("candidates" :> List(<<Obj("content" :>
               Obj("parts" :> List(<<Obj("text" :> Num(1))>>)))>>)),
       Obj("candidates" :> List(<<Obj("content" :>
               Obj("parts" :> List(<<>>)))>>)),
       Obj("candidates" :> List(<<Obj("content" :>
               Obj("parts" :> List(<<Obj("text" :> Str("x = 2")),
                                     Obj("thought" :> Num(1)),
                                     Obj("text" :> Str("QED"))>>)))>>)
           @@ "usageMetadata" :> Obj("totalTokenCount" :> Num(40))) >>

\* outcomes of the call to the document provider
SolveOutcomes ==
    {Timeout, NetworkError}
    \cup {Reply(s, 0, NoBody) : s \in UpstreamStatuses \ {200}}

\* the parsed result raised an exception
Raised == [raised |-> TRUE, answer |-> "", tokens_used |-> NoBody]
\* the parsed result
Parsed(answer, tokens_used) ==
    [raised |-> FALSE, answer |-> answer, tokens_used |-> tokens_used]

\* main.py:152-157  the text of the parts that have one, joined by "\n"
text_parts(parts) ==
    IF parts.t # "list" \/ \E i \in 1..Len(parts.xs) : PyInRaises(parts.xs[i])
    THEN Raised
    ELSE LET with == SelectSeq(parts.xs, LAMBDA part : PyIn("text", part))
         IN  IF \E i \in 1..Len(with) : PyGetRaises("text", with[i])
             THEN Raised
             ELSE IF \E i \in 1..Len(with) : PyGet("text", with[i]).t # "str"
             THEN Raised
             ELSE Parsed(join([i \in 1..Len(with) |->
                                 PyGet("text", with[i]).s]), NoBody)

\* main.py:149-161  the answer extracted from the parsed body
extract_answer(result) ==
    IF PyInRaises(result) THEN Raised
    ELSE IF ~PyIn("candidates", result)
    THEN Parsed("No response from Gemini", NoBody)
    ELSE IF PyGetRaises("candidates", result) THEN Raised
    ELSE IF PyLenRaises(PyGet("candidates", result)) THEN Raised
    ELSE IF ~(PyLen(PyGet("candidates", result)) > 0)
    THEN Parsed("No response from Gemini", NoBody)
    ELSE IF PyFirstRaises(PyGet("candidates", result)) THEN Raised
    ELSE LET candidate == PyFirst(PyGet("candidates", result))
         IN  IF PyInRaises(candidate) THEN Raised
             ELSE IF ~PyIn("content", candidate)
             THEN Parsed("No answer generated", NoBody)
             ELSE IF PyGetRaises("content", candidate) THEN Raised
             ELSE IF PyInRaises(PyGet("content", candidate)) THEN Raised
             ELSE IF ~PyIn("parts", PyGet("content", candidate))
             THEN Parsed("No answer generated", NoBody)
             ELSE IF PyGetRaises("parts", PyGet("content", candidate))
             THEN Raised
             ELSE text_parts(PyGet("parts", PyGet("content", candidate)))

\* main.py:167  result.get("usageMetadata", {}).get("totalTokenCount", 0)
tokens_used(result) ==
    IF PyDictGetRaises(result) THEN Raised
    ELSE LET usage == PyDictGet(result, "usageMetadata", EmptyObj)
         IN  IF PyDictGetRaises(usage) THEN Raised
             ELSE Parsed("", PyDictGet(usage, "totalTokenCount", Num(0)))

\* main.py:146-168  from response.json() to the returned dict
parse_response(body) ==
    IF body.t = "notjson" THEN Raised
    ELSE LET a == extract_answer(body)
         IN  IF a.raised THEN Raised
             ELSE LET u == tokens_used(body)
                  IN  IF u.raised THEN Raised
                      ELSE Parsed(a.answer, u.tokens_used)

\* the except clauses in the opposite order: the generic clause first
solve_pdf_except_GenericFirst(cls) ==
    HTTPException(500, "Error processing PDF")

\* main.py:170-173  the except clauses of solve_pdf, in the order written:
\* what leaves the handler for an exception of class cls raised in the try
\* block.  HTTPException is an Exception, so the one raised at line 141 is
\* caught by the generic clause and replaced by a new one.
solve_pdf_except(cls) ==
    IF cls = "TimeoutException"
    THEN HTTPException(504, "Gemini API timeout")
    ELSE HTTPException(500, "Error processing PDF")

\* main.py:90-138  from the entry of the handler to the await of the call.
\* question, max_tokens and temperature are copied into the payload and
\* decide nothing in the handler; the request keeps the content type only.
solve_pdf(content_type) ==
    /\ pc = "idle"
    /\ request' = [endpoint |-> "/solve-pdf", content_type |-> content_type]
    /\ upstream' = NoOutcome
    /\ IF not_configured(GEMINI_API_KEY)
       THEN /\ response' = HTTPException(500, "GEMINI_API_KEY not configured")
            /\ file_read' = FALSE
            /\ outbound' = <<>>
            /\ pc' = "idle"
       ELSE IF NotPdf(content_type)
       THEN /\ response' = HTTPException(400, "File must be a PDF")
            /\ file_read' = FALSE
            /\ outbound' = <<>>
            /\ pc' = "idle"
       ELSE /\ response' = NoResponse
            /\ file_read' = TRUE
            /\ outbound' = << [method |-> "POST", provider |-> "gemini",
                               url |-> <<"https://generativelanguage.googleapis.com/v1beta/models/gemini-1.5-flash:generateContent",
                                         "?", "key=" \o GEMINI_API_KEY>>] >>
            /\ pc' = "awaiting"
    /\ UNCHANGED <<config, image_log>>

\* main.py:140-173  the response for an outcome of the call
solve_pdf_response(outcome) ==
    CASE outcome.kind = "timeout" -> solve_pdf_except("TimeoutException")
      [] outcome.kind = "error" -> solve_pdf_except("ConnectError")
      [] outcome.kind = "response" /\ outcome.status_code # 200 ->
           solve_pdf_except("HTTPException")
      [] outcome.kind = "response" /\ outcome.status_code = 200 ->
           LET r == parse_response(outcome.body)
           IN  IF r.raised THEN solve_pdf_except("Exception")
               ELSE SolveResult(r.answer, r.tokens_used)

\* main.py:138-176  from the outcome of the call to the response
solve_pdf_resume(outcome) ==
    /\ pc = "awaiting"
    /\ request.endpoint = "/solve-pdf"
    /\ upstream' = outcome
    /\ response' = solve_pdf_response(outcome)
    /\ pc' = "idle"
    /\ UNCHANGED <<config, request, file_read, outbound, image_log>>

----------------------------------------------------------------------------
(* POST /screenshot *)

\* main.py:232-235  the except clauses of capture_screenshot
capture_screenshot_except(cls) ==
    IF cls = "TimeoutException"
    THEN HTTPException(504, "Screenshot service timeout")
    ELSE HTTPException(500, "Screenshot error")

\* main.py:192-214  the provider chosen and the credential sent to it
screenshot_call(full_page) ==
    IF ~not_configured(SCREENSHOTONE_KEY)
    THEN [method |-> "GET", provider |-> "screenshotone",
          url |-> <<"https://api.screenshotone.com/take", "?",
                    "access_key=" \o SCREENSHOTONE_KEY>>]
    ELSE [method |-> "GET", provider |-> "screenshotapi",
          url |-> <<"https://shot.screenshotapi.net/screenshot", "?",
                    "token=DEMO_TOKEN">>]

\* main.py:180-217  from the entry of the handler to the await of the call.
\* url, width and height are copied into the query parameters and decide
\* nothing in the handler.
capture_screenshot(full_page) ==
    /\ pc = "idle"
    /\ request' = [endpoint |-> "/screenshot", full_page |-> full_page]
    /\ upstream' = NoOutcome
    /\ response' = NoResponse
    /\ file_read' = FALSE
    /\ outbound' = << screenshot_call(full_page) >>
    /\ pc' = "awaiting"
    /\ UNCHANGED <<config, image_log>>

\* main.py:219-235  the response for an outcome of the call
capture_screenshot_response(outcome) ==
    CASE outcome.kind = "timeout" ->
           capture_screenshot_except("TimeoutException")
      [] outcome.kind = "error" ->
           capture_screenshot_except("ConnectError")
      [] outcome.kind = "response" /\ outcome.status_code = 200 ->
           StreamingResponse(outcome.content_len, "image/png")
      [] outcome.kind = "response" /\ outcome.status_code # 200 ->
           capture_screenshot_except("HTTPException")

\* main.py:217-235  from the outcome of the call to the response
capture_screenshot_resume(outcome) ==
    /\ pc = "awaiting"
    /\ request.endpoint = "/screenshot"
    /\ upstream' = outcome
    /\ response' = capture_screenshot_response(outcome)
    /\ pc' = "idle"
    /\ UNCHANGED <<config, request, file_read, outbound, image_log>>

----------------------------------------------------------------------------
(* POST /generate-image *)

\* prompts, as sequences of characters and words
Prompts == { <<"a", " ", "red", " ", "fox">> }
Widths == {512, 1024}
Heights == {512}
\* Optional[int]
Seeds == {None, Some(0), Some(7)}
Models == {"flux"}

ImageRequests ==
    [endpoint : {"/generate-image"}, prompt : Prompts, width : Widths,
     height : Heights, seed : Seeds, model : Models]

\* main.py:251  request.prompt.replace(" ", "%20")
encoded_prompt(prompt) ==
    [i \in 1..Len(prompt) |-> IF prompt[i] = " " THEN "%20" ELSE prompt[i]]

\* a seed drawn by the service when the request's seed is falsy: it differs
\* from call to call
seed_param_Drawn(seed) ==
    IF TruthyOptInt(seed) THEN <<"&", "seed=" \o ToString(seed[1])>>
    ELSE <<"&", "seed=" \o ToString(Len(image_log) + 1)>>

\* main.py:252  f"&seed={request.seed}" if request.seed else ""
seed_param(seed) ==
    IF TruthyOptInt(seed) THEN <<"&", "seed=" \o ToString(seed[1])>>
    ELSE <<>>

\* main.py:254-257  the outbound URL, as its tokens
image_url(req) ==
    <<"https://image.pollinations.ai/prompt/">>
    \o encoded_prompt(req.prompt)
    \o <<"?", "width=" \o ToString(req.width),
         "&", "height=" \o ToString(req.height),
         "&", "nologo=true">>
    \o seed_param(req.seed)

\* the window of the last MaxLog adapted calls
Remember(log, entry) ==
    IF Len(log) < MaxLog THEN Append(log, entry)
    ELSE Append(Tail(log), entry)

\* main.py:274-277  the except clauses of generate_image
generate_image_except(cls) ==
    IF cls = "TimeoutException"
    THEN HTTPException(504, "Image generation timeout")
    ELSE HTTPException(500, "Image generation error")

\* main.py:239-260  from the entry of the handler to the await of the call
generate_image(req) ==
    /\ pc = "idle"
    /\ request' = req
    /\ upstream' = NoOutcome
    /\ response' = NoResponse
    /\ file_read' = FALSE
    /\ outbound' = << [method |-> "GET", provider |-> "pollinations",
                       url |-> image_url(req)] >>
    /\ image_log' = Remember(image_log, [request |-> req,
                                         url |-> image_url(req)])
    /\ pc' = "awaiting"
    /\ UNCHANGED config

\* main.py:262-277  the response for an outcome of the call
generate_image_response(outcome) ==
    CASE outcome.kind = "timeout" ->
           generate_image_except("TimeoutException")
      [] outcome.kind = "error" ->
           generate_image_except("ConnectError")
      [] outcome.kind = "response" /\ outcome.status_code = 200 ->
           StreamingResponse(outcome.content_len, "image/png")
      [] outcome.kind = "response" /\ outcome.status_code # 200 ->
           generate_image_except("HTTPException")

\* a handler that calls the provider once more after a timeout
generate_image_resume_Retry(outcome) ==
    /\ pc = "awaiting"
    /\ request.endpoint = "/generate-image"
    /\ upstream' = outcome
    /\ IF outcome.kind = "timeout" /\ Len(outbound) < 2
       THEN /\ outbound' = Append(outbound, outbound[1])
            /\ response' = response
            /\ pc' = "awaiting"
       ELSE /\ outbound' = outbound
            /\ response' = generate_image_response(outcome)
            /\ pc' = "idle"
    /\ UNCHANGED <<config, request, file_read, image_log>>

\* main.py:260-277  from the outcome of the call to the response
generate_image_resume(outcome) ==
    /\ pc = "awaiting"
    /\ request.endpoint = "/generate-image"
    /\ upstream' = outcome
    /\ response' = generate_image_response(outcome)
    /\ pc' = "idle"
    /\ UNCHANGED <<config, request, file_read, outbound, image_log>>

----------------------------------------------------------------------------
(* POST /voiceover *)

\* lengths of the text of a voiceover request
TextLengths ==
    {0} \cup ((MAX_TEXT_CHARS - 1)..(MAX_TEXT_CHARS + MaxOver))

\* the limit off by one: a text of 5001 characters passes
TextTooLong_OffByOne(text_len) == text_len > MAX_TEXT_CHARS + 1

\* main.py:292  len(request.text) > 5000
TextTooLong(text_len) == text_len > MAX_TEXT_CHARS

\* main.py:325-328  the except clauses of generate_voiceover
generate_voiceover_except(cls) ==
    IF cls = "TimeoutException"
    THEN HTTPException(504, "Voiceover generation timeout")
    ELSE HTTPException(500, "Voiceover error")

\* main.py:281-311  from the entry of the handler to the await of the call.
\* voice_id and model_id are copied into the URL and the payload and decide
\* nothing in the handler.
generate_voiceover(text_len) ==
    /\ pc = "idle"
    /\ request' = [endpoint |-> "/voiceover", text_len |-> text_len]
    /\ upstream' = NoOutcome
    /\ file_read' = FALSE
    /\ IF not_configured(ELEVENLABS_API_KEY)
       THEN /\ response' =
                 HTTPException(500, "ELEVENLABS_API_KEY not configured")
            /\ outbound' = <<>>
            /\ pc' = "idle"
       ELSE IF TextTooLong(text_len)
       THEN /\ response' =
                 HTTPException(400, "Text too long (max 5000 chars)")
            /\ outbound' = <<>>
            /\ pc' = "idle"
       ELSE /\ response' = NoResponse
            /\ outbound' = << [method |-> "POST", provider |-> "elevenlabs",
                               url |-> <<"https://api.elevenlabs.io/v1/text-to-speech/">>] >>
            /\ pc' = "awaiting"
    /\ UNCHANGED <<config, image_log>>

\* main.py:313-328  the response for an outcome of the call
generate_voiceover_response(outcome) ==
    CASE outcome.kind = "timeout" ->
           generate_voiceover_except("TimeoutException")
      [] outcome.kind = "error" ->
           generate_voiceover_except("ConnectError")
      [] outcome.kind = "response" /\ outcome.status_code = 200 ->
           StreamingResponse(outcome.content_len, "audio/mpeg")
      [] outcome.kind = "response" /\ outcome.status_code # 200 ->
           generate_voiceover_except("HTTPException")

\* main.py:311-328  from the outcome of the call to the response
generate_voiceover_resume(outcome) ==
    /\ pc = "awaiting"
    /\ request.endpoint = "/voiceover"
    /\ upstream' = outcome
    /\ response' = generate_voiceover_response(outcome)
    /\ pc' = "idle"
    /\ UNCHANGED <<config, request, file_read, outbound, image_log>>

----------------------------------------------------------------------------
(* The service *)

\* the process starts with the credentials of its environment and no
\* request handled
Init ==
    /\ GEMINI_API_KEY \in Credentials
    /\ ELEVENLABS_API_KEY \in Credentials
    /\ POLLINATIONS_API_KEY \in Credentials
    /\ SCREENSHOTONE_KEY \in Credentials
    /\ pc = "idle"
    /\ request = [endpoint |-> "none"]
    /\ file_read = FALSE
    /\ outbound = <<>>
    /\ upstream = NoOutcome
    /\ response = NoResponse
    /\ image_log = <<>>

Next ==
    \/ \E content_type \in ContentTypes : solve_pdf(content_type)
    \/ \E outcome \in SolveOutcomes : solve_pdf_resume(outcome)
    \/ \E i \in 1..Len(Bodies) : solve_pdf_resume(Reply(200, 0, Bodies[i]))
    \/ \E full_page \in BOOLEAN : capture_screenshot(full_page)
    \/ \E outcome \in BinaryOutcomes : capture_screenshot_resume(outcome)
    \/ \E req \in ImageRequests : generate_image(req)
    \/ \E outcome \in BinaryOutcomes : generate_image_resume(outcome)
    \/ \E text_len \in TextLengths : generate_voiceover(text_len)
    \/ \E outcome \in BinaryOutcomes : generate_voiceover_resume(outcome)

Spec == Init /\ [][Next]_vars

----------------------------------------------------------------------------
(* Properties *)

\* a handler has been entered for `request`
Started == request.endpoint # "none"

\* the handler of `request` has returned or raised: the caller has its
\* response
Handled == Started /\ pc = "idle"

\* the upload declares a PDF content type
IsPdfType(content_type) ==
    /\ content_type # None
    /\ Len(content_type[1]) > 0
    /\ content_type[1][1] = "application/pdf"

\* the credential of the provider an endpoint relays to
CredentialOf(endpoint) ==
    CASE endpoint = "/solve-pdf" -> GEMINI_API_KEY
      [] endpoint = "/screenshot" -> SCREENSHOTONE_KEY
      [] endpoint = "/generate-image" -> POLLINATIONS_API_KEY
      [] endpoint = "/voiceover" -> ELEVENLABS_API_KEY

\* the request passes the credential and validation checks of its handler
PassesChecks ==
    CASE request.endpoint = "/solve-pdf" ->
           GEMINI_API_KEY # "" /\ IsPdfType(request.content_type)
      [] request.endpoint = "/voiceover" ->
           ELEVENLABS_API_KEY # "" /\ request.text_len <= MAX_TEXT_CHARS
      [] request.endpoint = "/screenshot" -> TRUE
      [] request.endpoint = "/generate-image" -> TRUE

\* the provider answered the current request with status 200 and `body`
Answered200 ==
    /\ Handled
    /\ upstream.kind = "response"
    /\ upstream.status_code = 200

\* C1 (as claimed): every /voiceover request whose text is longer than 5000
\* characters fails with status 400 and issues no outbound call.
C1_Original ==
    (request.endpoint = "/voiceover" /\ request.text_len > MAX_TEXT_CHARS)
    => /\ pc = "idle"
       /\ response.status_code = 400
       /\ outbound = <<>>

\* C1 (amended): every /voiceover request whose text is longer than 5000
\* characters issues no outbound call and fails: with status 400 when
\* ELEVENLABS_API_KEY is configured, with status 500 (the credential check
\* comes first) when it is not.
C1_Amended ==
    (request.endpoint = "/voiceover" /\ request.text_len > MAX_TEXT_CHARS)
    => /\ pc = "idle"
       /\ outbound = <<>>
       /\ response.status_code =
            IF ELEVENLABS_API_KEY = "" THEN 500 ELSE 400

\* C1 witness: a text of more than 5000 characters was refused with 400
C1_Witness ==
    /\ request.endpoint = "/voiceover"
    /\ request.text_len > MAX_TEXT_CHARS
    /\ ELEVENLABS_API_KEY # ""
    /\ Handled
    /\ response.status_code = 400
    /\ response.detail = "Text too long (max 5000 chars)"
    /\ outbound = <<>>

\* C2 (as claimed): on each of the four relay endpoints, a request handled
\* while the credential of the endpoint's provider is unset fails with
\* status 500 and issues no outbound call.
C2_Original ==
    (Started /\ CredentialOf(request.endpoint) = "")
    => /\ pc = "idle"
       /\ response.status_code = 500
       /\ outbound = <<>>

\* C2 (amended): on /solve-pdf and /voiceover a request handled while the
\* endpoint's credential is unset fails with status 500 and issues no
\* outbound call; /screenshot without SCREENSHOTONE_KEY issues its one call
\* to the demo provider, and /generate-image issues its one call whether or
\* not POLLINATIONS_API_KEY is set.
C2_Amended ==
    /\ (request.endpoint \in {"/solve-pdf", "/voiceover"}
        /\ CredentialOf(request.endpoint) = "")
       => /\ pc = "idle"
          /\ response.status_code = 500
          /\ outbound = <<>>
    /\ (request.endpoint = "/screenshot" /\ SCREENSHOTONE_KEY = "")
       => /\ Len(outbound) = 1
          /\ outbound[1].provider = "screenshotapi"
    /\ (request.endpoint = "/generate-image" /\ POLLINATIONS_API_KEY = "")
       => Len(outbound) = 1

\* C2 witness: /solve-pdf refused for its missing credential
C2_Witness ==
    /\ request.endpoint = "/solve-pdf"
    /\ GEMINI_API_KEY = ""
    /\ Handled
    /\ response.status_code = 500
    /\ response.detail = "GEMINI_API_KEY not configured"
    /\ outbound = <<>>

\* C3 (as claimed): every /solve-pdf request whose upload declares no PDF
\* content type is answered 400, before the file is read and before any
\* outbound call, whatever the configuration.
C3_Original ==
    (request.endpoint = "/solve-pdf" /\ ~IsPdfType(request.content_type))
    => /\ pc = "idle"
       /\ response.status_code = 400
       /\ ~file_read
       /\ outbound = <<>>

\* C3 (amended): every /solve-pdf request whose upload declares no PDF
\* content type fails before the file is read and before any outbound call:
\* with status 400 when GEMINI_API_KEY is configured, with status 500 (the
\* credential check comes first) when it is not.
C3_Amended ==
    (request.endpoint = "/solve-pdf" /\ ~IsPdfType(request.content_type))
    => /\ pc = "idle"
       /\ ~file_read
       /\ outbound = <<>>
       /\ response.status_code = IF GEMINI_API_KEY = "" THEN 500 ELSE 400

\* C3 witness: an image upload refused with 400, its contents unread
C3_Witness ==
    /\ request.endpoint = "/solve-pdf"
    /\ request.content_type = Some(<<"image/png">>)
    /\ GEMINI_API_KEY # ""
    /\ Handled
    /\ response.status_code = 400
    /\ ~file_read
    /\ outbound = <<>>

\* the body is a JSON object without candidates: the key is absent or its
\* value is the empty list
NoCandidates(body) ==
    /\ body.t = "obj"
    /\ \/ "candidates" \notin DOMAIN body.f
       \/ /\ body.f["candidates"].t = "list"
          /\ Len(body.f["candidates"].xs) = 0

\* C4 (as claimed): a /solve-pdf request whose upstream call returns 200
\* with a body that has no candidates gets a successful result whose answer
\* is the sentinel text, never an error response.
C4_Claim ==
    (request.endpoint = "/solve-pdf" /\ Answered200
     /\ NoCandidates(upstream.body))
    => /\ response.status_code = 200
       /\ response.answer = "No response from Gemini"

\* C5 (as claimed): a /screenshot request handled while SCREENSHOTONE_KEY
\* is configured, when answered with success, has the media type image/png
\* and a body of non-zero length.
C5_Claim ==
    (request.endpoint = "/screenshot" /\ SCREENSHOTONE_KEY # "" /\ Handled
     /\ response.status_code = 200)
    => /\ response.media_type = "image/png"
       /\ response.content_len > 0

\* the tokens a, b, c occur in url in this order
InOrder(a, b, c, url) ==
    \E i, j, k \in 1..Len(url) :
        i < j /\ j < k /\ url[i] = a /\ url[j] = b /\ url[k] = c

\* C6 (as claimed): for a /generate-image request with width W, height H
\* and an explicitly supplied seed S, the query of the outbound URL carries
\* width=W, height=H and seed=S, in this order, for every integer S.
C6_Claim ==
    (request.endpoint = "/generate-image" /\ request.seed # None
     /\ Len(outbound) = 1)
    => InOrder("width=" \o ToString(request.width),
               "height=" \o ToString(request.height),
               "seed=" \o ToString(request.seed[1]),
               outbound[1].url)

\* two /generate-image requests agree in every field
SameImageRequest(r1, r2) ==
    /\ r1.prompt = r2.prompt
    /\ r1.width = r2.width
    /\ r1.height = r2.height
    /\ r1.model = r2.model
    /\ r1.seed = r2.seed

\* C7: any two /generate-image requests with the same prompt, width,
\* height, model and explicit seed were adapted to the same outbound URL,
\* whatever was handled before or between them and whatever the providers
\* answered.
C7_Deterministic ==
    \A i, j \in 1..Len(image_log) :
        (/\ image_log[i].request.seed # None
         /\ SameImageRequest(image_log[i].request, image_log[j].request))
        => image_log[i].url = image_log[j].url

\* C7 witness: the same request with an explicit seed was adapted twice,
\* and the provider has answered the second call
C7_Witness ==
    /\ Len(image_log) >= 2
    /\ image_log[1].request.seed = Some(7)
    /\ SameImageRequest(image_log[1].request, image_log[2].request)
    /\ image_log[1].url = image_log[2].url
    /\ Handled
    /\ request.endpoint = "/generate-image"
    /\ upstream.kind = "response"

\* C8: a request issues at most one outbound call, and exactly one when it
\* passes the credential and validation checks of its handler; once the
\* provider has timed out, failed or answered (with any status), the
\* request still has issued exactly one call.
C8_OneCall ==
    /\ Len(outbound) <= 1
    /\ Started => (Len(outbound) = 1 <=> PassesChecks)
    /\ upstream.kind # "none" => Len(outbound) = 1

\* C8 witness: a call timed out and the handler answered without a second
\* call
C8_Witness ==
    /\ Handled
    /\ upstream.kind = "timeout"
    /\ response.status_code = 504
    /\ Len(outbound) = 1

\* C9: on each of the four relay endpoints, a call that times out yields
\* 504 and a call answered with a status other than 200 yields 500.
C9_StatusMapping ==
    Started =>
        /\ upstream.kind = "timeout" => response.status_code = 504
        /\ (upstream.kind = "response" /\ upstream.status_code # 200)
           => response.status_code = 500

\* C9 witness: the HTTPException raised for a non-200 status left solve_pdf
\* through its generic except clause, with status 500
C9_Witness ==
    /\ request.endpoint = "/solve-pdf"
    /\ Handled
    /\ upstream.kind = "response"
    /\ upstream.status_code # 200
    /\ response.status_code = 500
    /\ response.detail = "Error processing PDF"

\* the parts of the first candidate are present and one of them is not an
\* object
BadPart(parts) ==
    \/ parts.t # "list"
    \/ \E i \in 1..Len(parts.xs) : parts.xs[i].t # "obj"

\* the body cannot be parsed into the candidates/content/parts structure:
\* it is not JSON, or its first candidate, that candidate's content or one
\* of the content's parts has an unexpected type
UnexpectedShape(body) ==
    \/ body.t = "notjson"
    \/ /\ body.t = "obj"
       /\ "candidates" \in DOMAIN body.f
       /\ body.f["candidates"].t = "list"
       /\ Len(body.f["candidates"].xs) > 0
       /\ LET candidate == body.f["candidates"].xs[1]
          IN  \/ candidate.t # "obj"
              \/ /\ "content" \in DOMAIN candidate.f
                 /\ \/ candidate.f["content"].t # "obj"
                    \/ /\ "parts" \in DOMAIN candidate.f["content"].f
                       /\ BadPart(candidate.f["content"].f["parts"])

\* C10 (as claimed): a /solve-pdf request whose upstream call returns 200
\* with a body that cannot be parsed into the expected structure gets a
\* successful (sentinel or empty) result, not an error response.
C10_Claim ==
    (request.endpoint = "/solve-pdf" /\ Answered200
     /\ UnexpectedShape(upstream.body))
    => response.status_code = 200

====
